---- MODULE Spec2Model ----
(***************************************************************************)
(* Propositional formulas of book/chapter01: token classification,        *)
(* tokenizer, the Formula tree, the infix and Polish parsers, the         *)
(* substitution methods and the frozen class decorator.                   *)
(*                                                                         *)
(* A Python str is a sequence of one-character strings; a Formula is a    *)
(* record [root, first, second] whose absent children are None.           *)
(***************************************************************************)
EXTENDS Integers, Sequences, FiniteSets, TLC

VARIABLES s, f, res, heap, mutable_ids, memo, hash_key

vars == <<s, f, res, heap, mutable_ids, memo, hash_key>>

-----------------------------------------------------------------------------
(* Bounds *)

MaxLen == 3
MaxNodes == 4
MaxRender == 5
MaxOther == 3
MaxObjs == 2

-----------------------------------------------------------------------------
(* Characters.  Sup2 stands for U+00B2 SUPERSCRIPT TWO, a character for    *)
(* which str.isdigit() is true although it is not one of 0-9.              *)

Sup2 == "^2"

ord(c) ==
  CASE c = "&" -> 38
    [] c = "(" -> 40
    [] c = ")" -> 41
    [] c = "-" -> 45
    [] c = "0" -> 48
    [] c = "1" -> 49
    [] c = "2" -> 50
    [] c = "3" -> 51
    [] c = "4" -> 52
    [] c = "5" -> 53
    [] c = "6" -> 54
    [] c = "7" -> 55
    [] c = "8" -> 56
    [] c = "9" -> 57
    [] c = ">" -> 62
    [] c = "F" -> 70
    [] c = "T" -> 84
    [] c = "a" -> 97
    [] c = "e" -> 101
    [] c = "p" -> 112
    [] c = "q" -> 113
    [] c = "r" -> 114
    [] c = "s" -> 115
    [] c = "t" -> 116
    [] c = "u" -> 117
    [] c = "v" -> 118
    [] c = "w" -> 119
    [] c = "x" -> 120
    [] c = "y" -> 121
    [] c = "z" -> 122
    [] c = "|" -> 124
    [] c = "~" -> 126
    [] c = Sup2 -> 178
    [] OTHER -> 0

char_isdigit(c) == c \in {"0", "1", "2", "3", "4", "5", "6", "7", "8", "9", Sup2}

str_isdigit(string) ==
  /\ Len(string) > 0
  /\ \A i \in 1..Len(string) : char_isdigit(string[i])

(* string[:n] and string[n:] *)
Take(string, n) == SubSeq(string, 1, IF n < Len(string) THEN n ELSE Len(string))
Drop(string, n) == SubSeq(string, n + 1, Len(string))

-----------------------------------------------------------------------------
(* Token classification *)

(* string[0] of the empty string raises IndexError *)
is_variable_raises(string) == Len(string) = 0

is_variable(string) ==
  /\ ord(string[1]) >= ord("p")
  /\ ord(string[1]) <= ord("z")
  /\ (Len(string) = 1 \/ str_isdigit(Drop(string, 1)))

is_constant(string) == string = <<"T">> \/ string = <<"F">>

is_unary(string) == string = <<"~">>

is_binary(string) ==
  string = <<"&">> \/ string = <<"|">> \/ string = <<"-", ">">>

-----------------------------------------------------------------------------
(* Tokenizer *)

RECURSIVE takewhile_isdigit(_)
takewhile_isdigit(rest) ==
  IF rest # <<>> /\ char_isdigit(Head(rest))
  THEN <<Head(rest)>> \o takewhile_isdigit(Tail(rest))
  ELSE <<>>

(* split_str without the extension over the digits that follow *)
split_str_one_char(string) ==
  LET n == IF string # <<>> /\ string[1] = "-" THEN 2 ELSE 1
  IN  [prefix |-> Take(string, n), rest |-> Drop(string, n)]

split_str(string) ==
  LET n      == IF string # <<>> /\ string[1] = "-" THEN 2 ELSE 1
      prefix == Take(string, n)
      rest   == Drop(string, n)
  IN  IF prefix # <<>> /\ is_variable(prefix)
      THEN LET m == Len(takewhile_isdigit(rest))
           IN  [prefix |-> prefix \o Take(rest, m), rest |-> Drop(rest, m)]
      ELSE [prefix |-> prefix, rest |-> rest]

-----------------------------------------------------------------------------
(* Formula *)

None == [none |-> TRUE]

(* __init__ whose unary branch does not look at second *)
Formula_unary_unchecked(root, first, second) ==
  IF is_variable_raises(root)
  THEN [err |-> "IndexError", val |-> None]
  ELSE IF is_variable(root) \/ is_constant(root)
  THEN IF first = None /\ second = None
       THEN [err |-> "", val |-> [root |-> root, first |-> None, second |-> None]]
       ELSE [err |-> "AssertionError", val |-> None]
  ELSE IF is_unary(root)
  THEN IF first # None
       THEN [err |-> "", val |-> [root |-> root, first |-> first, second |-> second]]
       ELSE [err |-> "AssertionError", val |-> None]
  ELSE IF ~is_binary(root)
  THEN [err |-> "AssertionError", val |-> None]
  ELSE IF first # None /\ second # None
       THEN [err |-> "", val |-> [root |-> root, first |-> first, second |-> second]]
       ELSE [err |-> "AssertionError", val |-> None]

(* Formula.__init__: err is "" when the constructor returns *)
Formula(root, first, second) ==
  IF is_variable_raises(root)
  THEN [err |-> "IndexError", val |-> None]
  ELSE IF is_variable(root) \/ is_constant(root)
  THEN IF first = None /\ second = None
       THEN [err |-> "", val |-> [root |-> root, first |-> None, second |-> None]]
       ELSE [err |-> "AssertionError", val |-> None]
  ELSE IF is_unary(root)
  THEN IF first # None /\ second = None
       THEN [err |-> "", val |-> [root |-> root, first |-> first, second |-> None]]
       ELSE [err |-> "AssertionError", val |-> None]
  ELSE IF ~is_binary(root)
  THEN [err |-> "AssertionError", val |-> None]
  ELSE IF first # None /\ second # None
       THEN [err |-> "", val |-> [root |-> root, first |-> first, second |-> second]]
       ELSE [err |-> "AssertionError", val |-> None]

(* __repr__ that joins a binary node without the parentheses *)
RECURSIVE repr_unparenthesized(_)
repr_unparenthesized(self) ==
  IF is_constant(self.root) \/ is_variable(self.root)
  THEN self.root
  ELSE IF is_unary(self.root)
  THEN self.root \o repr_unparenthesized(self.first)
  ELSE repr_unparenthesized(self.first) \o self.root
         \o repr_unparenthesized(self.second)

RECURSIVE repr(_)
repr(self) ==
  IF is_constant(self.root) \/ is_variable(self.root)
  THEN self.root
  ELSE IF is_unary(self.root)
  THEN self.root \o repr(self.first)
  ELSE IF is_binary(self.root)
  THEN <<"(">> \o repr(self.first) \o self.root \o repr(self.second) \o <<")">>
  ELSE <<"None">>

-----------------------------------------------------------------------------
(* Infix parser *)

(* built counts the Formula objects the call has constructed *)
RECURSIVE parse_prefix(_)
parse_prefix(string) ==
  LET t      == split_str(string)
      prefix == t.prefix
      rest   == t.rest
  IN  IF prefix # <<>> /\ (is_constant(prefix) \/ is_variable(prefix))
      THEN [f |-> Formula(prefix, None, None).val, r |-> rest, built |-> 1]
      ELSE IF is_unary(prefix)
      THEN LET a == parse_prefix(rest)
           IN  IF a.f = None THEN a
               ELSE [f |-> Formula(prefix, a.f, None).val, r |-> a.r,
                     built |-> a.built + 1]
      ELSE IF prefix = <<"(">>
      THEN LET a == parse_prefix(rest)
           IN  IF a.f = None THEN a
               ELSE
               LET b   == split_str(a.r)
                   bop == b.prefix
                   rem == b.rest
               IN  IF ~is_binary(bop)
                   THEN [f |-> None,
                         r |-> <<"Unexpected symbol ">> \o bop \o <<" in ">> \o rem,
                         built |-> a.built]
                   ELSE
                   LET c == parse_prefix(rem)
                   IN  IF c.f = None
                       THEN [f |-> None, r |-> c.r, built |-> a.built + c.built]
                       ELSE IF ~(c.r # <<>> /\ c.r[1] = ")")
                       THEN [f |-> None,
                             r |-> <<"Unexpected symbol ">> \o Take(c.r, 1)
                                     \o <<" in ">> \o c.r,
                             built |-> a.built + c.built]
                       ELSE [f |-> Formula(bop, a.f, c.f).val, r |-> Drop(c.r, 1),
                             built |-> a.built + c.built + 1]
      ELSE [f |-> None, r |-> <<"Unexpected input ">> \o string, built |-> 0]

is_formula(string) ==
  LET a == parse_prefix(string)
  IN  a.f # None /\ a.r = <<>>

(* Formula.parse: the assert, then the parsed formula *)
parse(string) ==
  IF ~is_formula(string)
  THEN [err |-> "AssertionError", val |-> None]
  ELSE [err |-> "", val |-> parse_prefix(string).f]

-----------------------------------------------------------------------------
(* Polish notation *)

RECURSIVE polish(_)
polish(self) ==
  IF is_constant(self.root) \/ is_variable(self.root)
  THEN self.root
  ELSE IF is_unary(self.root)
  THEN self.root \o polish(self.first)
  ELSE self.root \o polish(self.first) \o polish(self.second)

RECURSIVE parse_prefix_polish(_)
parse_prefix_polish(string) ==
  LET t      == split_str(string)
      prefix == t.prefix
      rest   == t.rest
  IN  IF prefix # <<>> /\ (is_constant(prefix) \/ is_variable(prefix))
      THEN [f |-> Formula(prefix, None, None).val, r |-> rest, built |-> 1]
      ELSE IF is_unary(prefix)
      THEN LET a == parse_prefix_polish(rest)
           IN  IF a.f = None THEN a
               ELSE [f |-> Formula(prefix, a.f, None).val, r |-> a.r,
                     built |-> a.built + 1]
      ELSE IF is_binary(prefix)
      THEN LET a == parse_prefix_polish(rest)
           IN  IF a.f = None THEN a
               ELSE LET c == parse_prefix_polish(a.r)
                    IN  IF c.f = None
                        THEN [f |-> None, r |-> c.r, built |-> a.built + c.built]
                        ELSE [f |-> Formula(prefix, a.f, c.f).val, r |-> c.r,
                              built |-> a.built + c.built + 1]
      ELSE [f |-> None, r |-> <<"Unexpected input ">> \o string, built |-> 0]

(* Formula.parse_polish: no assert, the first component whatever it is *)
parse_polish(string) ==
  [err |-> "", val |-> parse_prefix_polish(string).f]

-----------------------------------------------------------------------------
(* Equality and hashing go through the string representation *)

(* __eq__ that compares the roots only *)
eq_by_root(self, other) == other # None /\ self.root = other.root

eq(self, other) == other # None /\ repr(self) = repr(other)

ne(self, other) == ~eq(self, other)

(* hash of a str: the interpreter draws a key when the process starts   *)
(* and hashes every str under it, so the number a str hashes to differs  *)
(* from one process to the next and is fixed within one.  hash_key is    *)
(* the key of this process.  The 64-bit number is not computed: a value  *)
(* of str_hash is the name of the number that the str has under the key, *)
(* so equal strs under one key have one value and different strs have    *)
(* different values (two strs meeting in one 64-bit number is left out). *)
(* The empty str has the number 0 under every key, hence one name.       *)
MaxHashKey == 1

HashKeys == 0..MaxHashKey

str_hash(key, string) ==
  [key |-> IF string = <<>> THEN 0 ELSE key, str |-> string]

hash(self) == str_hash(hash_key, repr(self))

-----------------------------------------------------------------------------
(* variables() and operators(): accumulator-passing recursion *)

RECURSIVE vars_with_acc(_, _)
vars_with_acc(g, acc) ==
  IF is_constant(g.root) THEN acc
  ELSE IF is_variable(g.root) THEN acc \cup {g.root}
  ELSE IF is_unary(g.root) THEN vars_with_acc(g.first, acc)
  ELSE vars_with_acc(g.second, vars_with_acc(g.first, acc))

variables(self) == vars_with_acc(self, {})

(* operators_with_acc that does not add the root of a unary node *)
RECURSIVE operators_with_acc_skip_unary(_, _)
operators_with_acc_skip_unary(g, acc) ==
  IF is_variable(g.root) THEN acc
  ELSE IF is_constant(g.root) THEN acc \cup {g.root}
  ELSE IF is_unary(g.root) THEN operators_with_acc_skip_unary(g.first, acc)
  ELSE operators_with_acc_skip_unary(g.second,
         operators_with_acc_skip_unary(g.first, acc \cup {g.root}))

RECURSIVE operators_with_acc(_, _)
operators_with_acc(g, acc) ==
  IF is_variable(g.root) THEN acc
  ELSE IF is_constant(g.root) THEN acc \cup {g.root}
  ELSE IF is_unary(g.root) THEN operators_with_acc(g.first, acc \cup {g.root})
  ELSE operators_with_acc(g.second,
                          operators_with_acc(g.first, acc \cup {g.root}))

operators(self) == operators_with_acc(self, {})

-----------------------------------------------------------------------------
(* Substitution.  A substitution_map is the sequence of its <<key, template>> *)
(* items in iteration order.  Both methods check their keys and end there:   *)
(* the body after the loop is empty, so the call returns None.               *)

RECURSIVE substitute_variables_check(_)
substitute_variables_check(items) ==
  IF items = <<>> THEN ""
  ELSE IF is_variable_raises(Head(items)[1]) THEN "IndexError"
  ELSE IF ~is_variable(Head(items)[1]) THEN "AssertionError"
  ELSE substitute_variables_check(Tail(items))

substitute_variables(self, substitution_map) ==
  [err |-> substitute_variables_check(substitution_map), val |-> None]

RECURSIVE substitute_operators_check(_)
substitute_operators_check(items) ==
  IF items = <<>> THEN ""
  ELSE LET operator == Head(items)[1]
           template == Head(items)[2]
       IN  IF ~(is_binary(operator) \/ is_unary(operator) \/ is_constant(operator))
           THEN "AssertionError"
           ELSE IF ~(variables(template) \subseteq {<<"p">>, <<"q">>})
           THEN "AssertionError"
           ELSE substitute_operators_check(Tail(items))

(* The templates whose variables() the loop calls before it ends *)
RECURSIVE substitute_operators_reached(_)
substitute_operators_reached(items) ==
  IF items = <<>> THEN {}
  ELSE LET operator == Head(items)[1]
           template == Head(items)[2]
       IN  IF ~(is_binary(operator) \/ is_unary(operator) \/ is_constant(operator))
           THEN {}
           ELSE IF ~(variables(template) \subseteq {<<"p">>, <<"q">>})
           THEN {template}
           ELSE {template} \cup substitute_operators_reached(Tail(items))

substitute_operators(self, substitution_map) ==
  [err |-> substitute_operators_check(substitution_map), val |-> None]

-----------------------------------------------------------------------------
(* Inputs.  Formulas are the values the constructor returns, by node count; *)
(* strings are all short strings over Chars, the two renderings of the      *)
(* formulas, and those renderings with one character appended or deleted.   *)

RootTokens ==
  { <<"p">>, <<"x", "1", "2">>, <<"T">>, <<"~">>, <<"&">>, <<"-", ">">>,
    <<>>, <<"(">>, <<"-">>, <<"a">> }

MaxSize ==
  LET m == IF MaxNodes > MaxOther THEN MaxNodes ELSE MaxOther
  IN  IF MaxRender > m THEN MaxRender ELSE m

FormulasOfSize[n \in 0..MaxSize] ==
  IF n = 0 THEN {None}
  ELSE LET built == UNION { { Formula(root, first, second) :
                                root \in RootTokens,
                                first \in FormulasOfSize[i],
                                second \in FormulasOfSize[n - 1 - i] } :
                            i \in 0..(n - 1) }
       IN  { c.val : c \in { x \in built : x.err = "" } }

FormulasUpTo(n) == UNION { FormulasOfSize[k] : k \in 1..n }

ExampleStrings ==
  { <<"(", "(", "p", "-", ">", "p", ")", "|", "r", ")">>,
    <<"(", "p", "|", "r", ")">>,
    <<"(", "q", "&", "r", ")">>,
    <<"~", "(", "~", "p", "|", "~", "q", ")">>,
    <<"(", "(", "x", "&", "y", ")", "&", "~", "z", ")">>,
    <<"(", "p", "&", "q", ")", "e", "x", "t", "r", "a">>,
    <<"p", "~", "q">>,
    <<"x", "1", "2">>,
    <<"(", "x", Sup2, "&", "F", ")">> }

ExampleFormulas ==
  { parse(x).val : x \in { y \in ExampleStrings : is_formula(y) } }

Chars == {"p", "1", "T", "~", "(", ")", "&", "-", ">", Sup2}

Strings(n) == UNION { [1..k -> Chars] : k \in 0..n }

DeleteAt(string, i) == SubSeq(string, 1, i - 1) \o SubSeq(string, i + 1, Len(string))

Edits(string) ==
  {string} \cup { string \o <<c>> : c \in Chars }
           \cup { DeleteAt(string, i) : i \in 1..Len(string) }

Renderings ==
  { repr(t) : t \in FormulasUpTo(MaxRender) } \cup
  { polish(t) : t \in FormulasUpTo(MaxRender) }

Inputs ==
  Strings(MaxLen) \cup ExampleStrings \cup UNION { Edits(x) : x \in Renderings }

(* A substitution map: its items in iteration order *)
Templates ==
  FormulasUpTo(1) \cup
  { parse(x).val : x \in { <<"(", "q", "&", "r", ")">>,
                           <<"~", "(", "~", "p", "|", "~", "q", ")">> } }

Keys == { <<"p">>, <<"r">>, <<"&">>, <<"T">>, <<>> }

SubstitutionMaps ==
  { <<>> } \cup { << <<k, t>> >> : k \in Keys, t \in Templates }
  \cup { << <<<<"p">>, parse(<<"(", "q", "&", "r", ")">>).val>>,
            <<<<"r">>, parse(<<"p">>).val>> >> }

-----------------------------------------------------------------------------
(* The result of the last call *)

NoCall == [op |-> "none"]

(* Formula objects by id(): an id is free, or names an object whose       *)
(* constructor returned or raised; mutable_ids is the set frozen() keeps. *)
Ids == 1..MaxObjs

Free == [state |-> "free"]

(* The memoized methods of the instance f: dict holds, per method name,  *)
(* the value behind the instance attribute that wrapper has set (empty   *)
(* while there is none), runs counts the executions of the method body,  *)
(* returned collects the values the calls have returned.                 *)
Methods == {"__repr__", "variables", "operators"}

NoMemo == [dict     |-> [m \in Methods |-> {}],
           runs     |-> [m \in Methods |-> 0],
           returned |-> [m \in Methods |-> {}]]

Idle == /\ heap = [a \in Ids |-> Free]
        /\ mutable_ids = {}
        /\ memo = NoMemo
        /\ hash_key \in HashKeys

(* The address of a new object is the allocator's choice.  A Formula    *)
(* that is constructed without an error may get the address of a dead    *)
(* object whose id was left in mutable_ids, and init_wrapper then        *)
(* removes that id.  reuse(n): the sets of ids that n such constructions *)
(* can remove.                                                           *)
reuse(n) ==
  { R \in SUBSET { a \in mutable_ids : heap[a] = Free } : Cardinality(R) <= n }

(* Calls on a string *)

InitParse ==
  /\ s \in Inputs
  /\ f = None
  /\ res = NoCall
  /\ Idle

CallIsFormula ==
  /\ res = NoCall
  /\ res' = [op |-> "is_formula", b |-> is_formula(s)]
  /\ \E R \in reuse(parse_prefix(s).built) : mutable_ids' = mutable_ids \ R
  /\ UNCHANGED <<s, f, memo, heap, hash_key>>

CallParse ==
  /\ res = NoCall
  /\ res' = [op |-> "parse", err |-> parse(s).err, val |-> parse(s).val]
  /\ \E R \in reuse(IF is_formula(s) THEN 2 * parse_prefix(s).built
                                     ELSE parse_prefix(s).built) :
       mutable_ids' = mutable_ids \ R
  /\ UNCHANGED <<s, f, memo, heap, hash_key>>

CallParsePolish ==
  /\ res = NoCall
  /\ res' = [op |-> "parse_polish", err |-> parse_polish(s).err,
             val |-> parse_polish(s).val]
  /\ \E R \in reuse(parse_prefix_polish(s).built) : mutable_ids' = mutable_ids \ R
  /\ UNCHANGED <<s, f, memo, heap, hash_key>>

(* The caller takes the result; the next call can start *)
Return ==
  /\ res # NoCall
  /\ res' = NoCall
  /\ UNCHANGED <<s, f, memo, heap, mutable_ids, hash_key>>

NextParse == CallIsFormula \/ CallParse \/ CallParsePolish \/ Return

SpecParse == InitParse /\ [][NextParse]_vars

(* memoized_parameterless_method on __repr__, variables and operators of *)
(* the instance f                                                        *)

MaxCalls == 3

method(m, self) ==
  CASE m = "__repr__"  -> repr(self)
    [] m = "variables" -> variables(self)
    [] m = "operators" -> operators(self)

(* wrapper(obj): run the method, store new_wrapper under the method's    *)
(* name in the instance, return new_wrapper()                            *)
wrapper(m, self, mm) ==
  LET value == method(m, self)
  IN  [mm EXCEPT !.dict[m] = {value},
                 !.runs[m] = @ + 1,
                 !.returned[m] = @ \cup {value}]

(* new_wrapper(): the stored value (its copy() when it has one) *)
new_wrapper(m, mm) ==
  [mm EXCEPT !.returned[m] = @ \cup mm.dict[m]]

(* Calls on a Formula *)

InitFormula ==
  /\ f \in FormulasUpTo(MaxNodes) \cup ExampleFormulas
  /\ s = <<>>
  /\ res = NoCall
  /\ Idle

(* f.m(): attribute lookup finds the instance attribute when wrapper has *)
(* set one, the class's wrapper otherwise                                *)
CallMethod(m) ==
  /\ res = NoCall
  /\ IF memo.dict[m] # {}
     THEN /\ memo' = new_wrapper(m, memo)
          /\ res' = [op |-> m, ran |-> FALSE,
                     val |-> CHOOSE value \in memo.dict[m] : TRUE]
     ELSE /\ memo.runs[m] < MaxCalls
          /\ memo' = wrapper(m, f, memo)
          /\ res' = [op |-> m, ran |-> TRUE, val |-> method(m, f)]
  /\ UNCHANGED <<s, f, heap, mutable_ids, hash_key>>

CallVariables == CallMethod("variables")

CallOperators == CallMethod("operators")

(* str(f), repr(f): the interpreter takes __repr__ from the class, never *)
(* from the instance, so it is the class's wrapper that runs             *)
CallRepr ==
  /\ res = NoCall
  /\ memo.runs["__repr__"] < MaxCalls
  /\ memo' = wrapper("__repr__", f, memo)
  /\ res' = [op |-> "repr", str |-> repr(f)]
  /\ UNCHANGED <<s, f, heap, mutable_ids, hash_key>>

(* The nodes of the tree g that can be the object self: the positions  *)
(* whose subtree equals self                                             *)
RECURSIVE occurrences(_, _)
occurrences(g, self) ==
  IF g = None THEN 0
  ELSE IF g = self THEN 1
  ELSE occurrences(g.first, self) + occurrences(g.second, self)

RECURSIVE wrapper_times(_, _, _, _)
wrapper_times(n, m, self, mm) ==
  IF n = 0 THEN mm ELSE wrapper(m, self, wrapper_times(n - 1, m, self, mm))

(* f == other.  None stands for every object that is not a Formula, for  *)
(* which isinstance ends the comparison before str(self) is taken.       *)
(* shared is the number of nodes of other that are the object f itself   *)
(* (1 for f == f, 2 for f == Formula('&', f, f)): str(other) renders     *)
(* each of them through the class's wrapper, as str(self) does f.        *)
CallEq(other, shared) ==
  /\ res = NoCall
  /\ IF other = None
     THEN shared = 0 /\ memo' = memo
     ELSE /\ shared <= occurrences(other, f)
          /\ memo.runs["__repr__"] + 1 + shared <= MaxCalls
          /\ memo' = wrapper_times(1 + shared, "__repr__", f, memo)
  /\ res' = [op |-> "eq", other |-> other, shared |-> shared, b |-> eq(f, other)]
  /\ UNCHANGED <<s, f, heap, mutable_ids, hash_key>>

(* f != other: not self == other *)
CallNe(other, shared) ==
  /\ res = NoCall
  /\ IF other = None
     THEN shared = 0 /\ memo' = memo
     ELSE /\ shared <= occurrences(other, f)
          /\ memo.runs["__repr__"] + 1 + shared <= MaxCalls
          /\ memo' = wrapper_times(1 + shared, "__repr__", f, memo)
  /\ res' = [op |-> "ne", other |-> other, shared |-> shared, b |-> ne(f, other)]
  /\ UNCHANGED <<s, f, heap, mutable_ids, hash_key>>

(* hash(f): hash(str(self)) *)
CallHash ==
  /\ res = NoCall
  /\ memo.runs["__repr__"] < MaxCalls
  /\ memo' = wrapper("__repr__", f, memo)
  /\ res' = [op |-> "hash", n |-> hash(f)]
  /\ UNCHANGED <<s, f, heap, mutable_ids, hash_key>>

CallPolish ==
  /\ res = NoCall
  /\ res' = [op |-> "polish", str |-> polish(f)]
  /\ UNCHANGED <<s, f, memo, heap, mutable_ids, hash_key>>

(* Formula.parse_polish(f.polish()) *)
CallParsePolishOfPolish ==
  /\ res = NoCall
  /\ res' = [op |-> "parse_polish(polish)", err |-> parse_polish(polish(f)).err,
             val |-> parse_polish(polish(f)).val]
  /\ \E R \in reuse(parse_prefix_polish(polish(f)).built) :
       mutable_ids' = mutable_ids \ R
  /\ UNCHANGED <<s, f, memo, heap, hash_key>>

CallSubstituteVariables(substitution_map) ==
  /\ res = NoCall
  /\ res' = [op |-> "substitute_variables", map |-> substitution_map,
             err |-> substitute_variables(f, substitution_map).err,
             val |-> substitute_variables(f, substitution_map).val]
  /\ UNCHANGED <<s, f, memo, heap, mutable_ids, hash_key>>

(* shared: one of the templates whose variables() is called is the      *)
(* object f itself, so that the call is f.variables()                    *)
CallSubstituteOperators(substitution_map, shared) ==
  /\ res = NoCall
  /\ IF shared
     THEN /\ f \in substitute_operators_reached(substitution_map)
          /\ IF memo.dict["variables"] # {}
             THEN memo' = new_wrapper("variables", memo)
             ELSE /\ memo.runs["variables"] < MaxCalls
                  /\ memo' = wrapper("variables", f, memo)
     ELSE memo' = memo
  /\ res' = [op |-> "substitute_operators", map |-> substitution_map,
             shared |-> shared,
             err |-> substitute_operators(f, substitution_map).err,
             val |-> substitute_operators(f, substitution_map).val]
  /\ UNCHANGED <<s, f, heap, mutable_ids, hash_key>>

(* What f is compared with: something that is no Formula and the small *)
(* formulas; f itself is added in NextFormula                            *)
Others == {None} \cup FormulasUpTo(MaxOther)

MaxShared == MaxCalls - 1

NextFormula ==
  \/ CallMethod("__repr__")
  \/ CallVariables
  \/ CallOperators
  \/ CallRepr
  \/ \E other \in Others, shared \in 0..MaxShared : CallEq(other, shared)
  \/ \E shared \in 0..MaxShared : CallEq(f, shared)
  \/ \E other \in Others, shared \in 0..MaxShared : CallNe(other, shared)
  \/ \E shared \in 0..MaxShared : CallNe(f, shared)
  \/ CallHash
  \/ CallPolish
  \/ CallParsePolishOfPolish
  \/ \E m \in SubstitutionMaps : CallSubstituteVariables(m)
  \/ \E m \in SubstitutionMaps, shared \in BOOLEAN :
       CallSubstituteOperators(m, shared)
  \/ Return

SpecFormula == InitFormula /\ [][NextFormula]_vars

-----------------------------------------------------------------------------
(* The constructor called on the operands None, f and the leaves *)

InitConstruct ==
  /\ f \in FormulasUpTo(MaxOther) \cup ExampleFormulas
  /\ s = <<>>
  /\ res = NoCall
  /\ Idle

(* Formula(root, first, second): the new object gets an address a that  *)
(* no live object has, init_wrapper adds a to mutable_ids, runs __init__ *)
(* and removes a; when __init__ raises, the remove is never reached.     *)
(* Addresses are the ids that are followed and 0 for every other one; a  *)
(* construction that fails at an address that is not followed is left    *)
(* out.  The object that is returned is the caller's value.              *)
Addresses == Ids \cup {0}

CallFormula(a, root, first, second) ==
  /\ res = NoCall
  /\ a \in Ids => heap[a] = Free
  /\ Formula(root, first, second).err # "" => a \in Ids
  /\ res' = [op |-> "Formula", root |-> root, first |-> first, second |-> second,
             err |-> Formula(root, first, second).err,
             val |-> Formula(root, first, second).val]
  /\ mutable_ids' = IF Formula(root, first, second).err = ""
                    THEN (mutable_ids \cup {a}) \ {a}
                    ELSE mutable_ids \cup {a}
  /\ UNCHANGED <<s, f, memo, heap, hash_key>>

Operands == {None, f} \cup FormulasUpTo(1)

NextConstruct ==
  \/ \E a \in Addresses, root \in RootTokens, first \in Operands,
        second \in Operands :
       CallFormula(a, root, first, second)
  \/ CallParsePolishOfPolish
  \/ Return

SpecConstruct == InitConstruct /\ [][NextConstruct]_vars

-----------------------------------------------------------------------------
(* frozen: Formula objects, their attributes and mutable_ids *)

FieldNames == {"root", "first", "second"}

FieldValues(name) ==
  IF name = "root" THEN { <<"p">>, <<"~">>, <<"a">> }
  ELSE { None, Formula(<<"p">>, None, None).val }

InitFrozen ==
  /\ s = <<>>
  /\ f = None
  /\ res = NoCall
  /\ Idle

(* setattr_wrapper on self: the write goes through iff id(self) is in    *)
(* mutable_ids, otherwise it raises Exception                            *)
setattr_wrapper(obj, a, ids, name, value) ==
  IF a \in ids
  THEN [err |-> "", obj |-> [obj EXCEPT ![name] = value]]
  ELSE [err |-> "Exception", obj |-> obj]

(* init_wrapper on the object at id a, a new object when a is free and  *)
(* obj.__init__(root, first, second) on the object that is there         *)
(* otherwise: add the id, run __init__, remove the id.  __init__ assigns *)
(* root for a variable or constant, root and first for a unary root, all *)
(* three for a binary one; when it raises, the remove is never reached   *)
(* and no attribute has been assigned.  state is "returned" once an      *)
(* __init__ of the object has returned, "raised" while none has.         *)
New(a, root, first, second) ==
  /\ res = NoCall
  /\ LET ids   == mutable_ids \cup {a}
         c     == Formula(root, first, second)
         blank == [state |-> "init", root |-> None, first |-> None, second |-> None]
         self  == IF heap[a] = Free THEN blank ELSE heap[a]
         w1    == setattr_wrapper(self, a, ids, "root", root)
         w2    == IF is_unary(root) \/ is_binary(root)
                  THEN setattr_wrapper(w1.obj, a, ids, "first", first)
                  ELSE w1
         w3    == IF is_binary(root)
                  THEN setattr_wrapper(w2.obj, a, ids, "second", second)
                  ELSE w2
     IN  IF c.err = ""
         THEN /\ heap' = [heap EXCEPT ![a] = [w3.obj EXCEPT !.state = "returned"]]
              /\ mutable_ids' = ids \ {a}
              /\ res' = [op |-> "new", id |-> a, err |-> "",
                         fresh |-> heap[a] = Free]
         ELSE /\ heap' = [heap EXCEPT ![a] =
                            [self EXCEPT !.state = IF self.state = "returned"
                                                   THEN "returned" ELSE "raised"]]
              /\ mutable_ids' = ids
              /\ res' = [op |-> "new", id |-> a, err |-> c.err,
                         fresh |-> heap[a] = Free]
  /\ UNCHANGED <<s, f, memo, hash_key>>

(* obj.name = value on an object that exists *)
SetAttr(a, name, value) ==
  /\ res = NoCall
  /\ heap[a] # Free
  /\ LET w == setattr_wrapper(heap[a], a, mutable_ids, name, value)
     IN  /\ heap' = [heap EXCEPT ![a] = w.obj]
         /\ res' = [op |-> "setattr", id |-> a, name |-> name, err |-> w.err,
                    state |-> heap[a].state, old |-> heap[a]]
  /\ UNCHANGED <<s, f, memo, mutable_ids, hash_key>>

(* del obj.name: delattr_wrapper takes a third parameter that the        *)
(* interpreter never passes, so the call itself raises TypeError         *)
DelAttr(a, name) ==
  /\ res = NoCall
  /\ heap[a] # Free
  /\ res' = [op |-> "delattr", id |-> a, name |-> name, err |-> "TypeError",
             state |-> heap[a].state, old |-> heap[a]]
  /\ UNCHANGED <<s, f, memo, heap, mutable_ids, hash_key>>

(* The last reference to an object goes away; its id can be given to a   *)
(* later object.  mutable_ids is not told.                               *)
Collect(a) ==
  /\ res = NoCall
  /\ heap[a] # Free
  /\ heap' = [heap EXCEPT ![a] = Free]
  /\ UNCHANGED <<s, f, memo, res, mutable_ids, hash_key>>

NextFrozen ==
  \/ \E a \in Ids, root \in FieldValues("root"),
        first \in FieldValues("first"), second \in FieldValues("second") :
       New(a, root, first, second)
  \/ \E a \in Ids, name \in FieldNames :
       \E value \in FieldValues(name) : SetAttr(a, name, value)
  \/ \E a \in Ids, name \in FieldNames : DelAttr(a, name)
  \/ \E a \in Ids : Collect(a)
  \/ Return

SpecFrozen == InitFrozen /\ [][NextFrozen]_vars

-----------------------------------------------------------------------------
(* Calls of the four token predicates on a string *)

Classifiers == {"is_variable", "is_constant", "is_unary", "is_binary"}

(* The outcome of name(string): the exception raised, or the value *)
classify(name, string) ==
  CASE name = "is_variable" ->
         IF is_variable_raises(string)
         THEN [err |-> "IndexError", b |-> FALSE]
         ELSE [err |-> "", b |-> is_variable(string)]
    [] name = "is_constant" -> [err |-> "", b |-> is_constant(string)]
    [] name = "is_unary"    -> [err |-> "", b |-> is_unary(string)]
    [] name = "is_binary"   -> [err |-> "", b |-> is_binary(string)]

InitClassify ==
  /\ s \in Strings(MaxLen) \cup RootTokens \cup ExampleStrings
  /\ f = None
  /\ res = NoCall
  /\ Idle

CallClassifier(name) ==
  /\ res = NoCall
  /\ res' = [op |-> name, err |-> classify(name, s).err,
             b |-> classify(name, s).b]
  /\ UNCHANGED <<s, f, memo, heap, mutable_ids, hash_key>>

NextClassify ==
  \/ \E name \in Classifiers : CallClassifier(name)
  \/ Return

SpecClassify == InitClassify /\ [][NextClassify]_vars

-----------------------------------------------------------------------------
(* Reference definitions used to state the properties *)

Letters == {"p", "q", "r", "s", "t", "u", "v", "w", "x", "y", "z"}

DecimalDigits == {"0", "1", "2", "3", "4", "5", "6", "7", "8", "9"}

BinaryTokens == { <<"&">>, <<"|">>, <<"-", ">">> }

(* variable := [p-z][0-9]* *)
GrammarVariable(string) ==
  /\ Len(string) >= 1
  /\ string[1] \in Letters
  /\ \A i \in 2..Len(string) : string[i] \in DecimalDigits

(* formula := constant | variable | "~" formula | "(" formula binop formula ")" *)
RECURSIVE InGrammar(_)
InGrammar(string) ==
  \/ string \in { <<"T">>, <<"F">> }
  \/ GrammarVariable(string)
  \/ /\ Len(string) >= 2
     /\ string[1] = "~"
     /\ InGrammar(Tail(string))
  \/ /\ Len(string) >= 5
     /\ string[1] = "("
     /\ string[Len(string)] = ")"
     /\ \E i \in 3..(Len(string) - 2), k \in {1, 2} :
          /\ i + k <= Len(string) - 1
          /\ SubSeq(string, i, i + k - 1) \in BinaryTokens
          /\ InGrammar(SubSeq(string, 2, i - 1))
          /\ InGrammar(SubSeq(string, i + k, Len(string) - 1))

(* formula := constant | variable | "~" formula | binop formula formula *)
RECURSIVE InPolishGrammar(_)
InPolishGrammar(string) ==
  \/ string \in { <<"T">>, <<"F">> }
  \/ GrammarVariable(string)
  \/ /\ Len(string) >= 2
     /\ string[1] = "~"
     /\ InPolishGrammar(Tail(string))
  \/ \E k \in {1, 2} :
       /\ Len(string) >= k + 2
       /\ SubSeq(string, 1, k) \in BinaryTokens
       /\ \E i \in (k + 1)..(Len(string) - 1) :
            /\ InPolishGrammar(SubSeq(string, k + 1, i))
            /\ InPolishGrammar(SubSeq(string, i + 1, Len(string)))

(* The nodes of a tree, and the tokens at them *)
RECURSIVE Nodes(_)
Nodes(g) ==
  IF g = None THEN {}
  ELSE {g} \cup Nodes(g.first) \cup Nodes(g.second)

RootsOf(g) == { n.root : n \in Nodes(g) }

(* The number of children a root's class calls for; -1 for no class *)
Arity(root) ==
  IF root = <<>> THEN -1
  ELSE IF is_variable(root) \/ is_constant(root) THEN 0
  ELSE IF is_unary(root) THEN 1
  ELSE IF is_binary(root) THEN 2
  ELSE -1

ChildCount(first, second) ==
  IF first = None /\ second = None THEN 0
  ELSE IF first # None /\ second = None THEN 1
  ELSE IF first # None /\ second # None THEN 2
  ELSE -2

WellFormed(g) ==
  \A n \in Nodes(g) : Arity(n.root) = ChildCount(n.first, n.second)

(* Simultaneous substitution as the docstrings describe it *)
HasKey(items, k) == \E i \in 1..Len(items) : items[i][1] = k

Lookup(items, k) ==
  items[CHOOSE i \in 1..Len(items) : items[i][1] = k][2]

RECURSIVE SubstituteVariablesRef(_, _)
SubstituteVariablesRef(g, items) ==
  IF g = None THEN None
  ELSE IF is_variable(g.root)
  THEN IF HasKey(items, g.root) THEN Lookup(items, g.root) ELSE g
  ELSE [root |-> g.root,
        first |-> SubstituteVariablesRef(g.first, items),
        second |-> SubstituteVariablesRef(g.second, items)]

RECURSIVE SubstituteOperatorsRef(_, _)
SubstituteOperatorsRef(g, items) ==
  IF g = None THEN None
  ELSE LET a == SubstituteOperatorsRef(g.first, items)
           b == SubstituteOperatorsRef(g.second, items)
           operands == (IF a = None THEN <<>> ELSE << <<<<"p">>, a>> >>) \o
                       (IF b = None THEN <<>> ELSE << <<<<"q">>, b>> >>)
       IN  IF ~is_variable(g.root) /\ HasKey(items, g.root)
           THEN SubstituteVariablesRef(Lookup(items, g.root), operands)
           ELSE [root |-> g.root, first |-> a, second |-> b]

-----------------------------------------------------------------------------
(* Properties *)

(* C1: for every string s with is_formula(s), Formula.parse(s) returns a   *)
(* formula whose string representation is exactly s.                       *)
C1_RoundTrip ==
  (res.op = "parse" /\ is_formula(s)) =>
    (res.err = "" /\ res.val # None /\ repr(res.val) = s)

(* C1 witness: a nested binary formula has been parsed and printed back *)
C1_Witness ==
  /\ res.op = "parse"
  /\ res.err = ""
  /\ is_binary(res.val.root)
  /\ is_binary(res.val.first.root)
  /\ repr(res.val) = s

(* C2: is_formula(s) is true exactly when the whole of s is derivable from *)
(* the infix grammar with variable := [p-z][0-9]*.                         *)
C2_IsFormulaIffGrammar ==
  res.op = "is_formula" => (res.b <=> InGrammar(s))

(* C3: the constructor returns exactly when the children given match the   *)
(* arity of the root's class, the object it returns has those children,    *)
(* and every formula the constructor, parse or parse_polish has produced   *)
(* has at each node the number of children its root calls for.             *)
C3_Arity ==
  /\ WellFormed(f)
  /\ res.op = "Formula" =>
       /\ res.err = "" <=> Arity(res.root) = ChildCount(res.first, res.second)
       /\ res.err = "" =>
            /\ res.val = [root |-> res.root, first |-> res.first,
                          second |-> res.second]
            /\ WellFormed(res.val)
       /\ res.err # "" => res.val = None
  /\ (res.op = "parse_polish(polish)" /\ res.val # None) => WellFormed(res.val)

(* C3 witness: a binary root given only its first child was refused *)
C3_Witness ==
  /\ res.op = "Formula"
  /\ is_binary(res.root)
  /\ res.first # None
  /\ res.second = None
  /\ res.err = "AssertionError"

(* C4: f == g iff their string representations are equal iff f and g are   *)
(* the same tree; f != g is the negation; equal formulas hash equally.     *)
C4_Equality ==
  /\ (res.op = "eq" /\ res.other # None) =>
       /\ res.b <=> repr(f) = repr(res.other)
       /\ res.b <=> f = res.other
       /\ res.b => hash(f) = hash(res.other)
  /\ (res.op = "ne" /\ res.other # None) =>
       /\ res.b <=> ~eq(f, res.other)
       /\ res.b <=> f # res.other

(* C4 witness: two binary formulas with the same root compared unequal *)
C4_Witness ==
  /\ res.op = "eq"
  /\ res.other # None
  /\ is_binary(f.root)
  /\ res.other.root = f.root
  /\ ~res.b

(* C5: an assignment to a field of a Formula is accepted only while that   *)
(* instance's constructor is executing: every assignment made from outside *)
(* is rejected with an error and leaves the fields as they were.           *)
C5_Immutable ==
  res.op = "setattr" => (res.err = "Exception" /\ heap[res.id] = res.old)

(* C6: variables() is the set of variable tokens at the nodes of f,        *)
(* operators() the set of constant, unary and binary tokens at them; the   *)
(* two are disjoint and together are all the root tokens of the tree.      *)
C6_VariablesOperators ==
  /\ res.op = "variables" =>
       /\ res.val = { r \in RootsOf(f) : is_variable(r) }
       /\ res.val \cap operators(f) = {}
       /\ res.val \cup operators(f) = RootsOf(f)
  /\ res.op = "operators" =>
       /\ res.val = { r \in RootsOf(f) :
                        is_constant(r) \/ is_unary(r) \/ is_binary(r) }
       /\ res.val \cap variables(f) = {}
       /\ res.val \cup variables(f) = RootsOf(f)

(* C6 witness: operators() of ((p->p)|r) returned {->, |} *)
C6_Witness ==
  /\ res.op = "operators"
  /\ repr(f) = <<"(", "(", "p", "-", ">", "p", ")", "|", "r", ")">>
  /\ res.val = { <<"-", ">">>, <<"|">> }
  /\ variables(f) = { <<"p">>, <<"r">> }

(* C7: substitute_variables with a map keyed by variables returns f with   *)
(* each variable leaf that is a key replaced by its template, once.        *)
C7_SubstituteVariables ==
  (res.op = "substitute_variables" /\ res.err = "") =>
    res.val = SubstituteVariablesRef(f, res.map)

(* C8: substitute_operators with a map keyed by operators and constants    *)
(* returns f rebuilt bottom-up with each keyed node replaced by its        *)
(* template applied to the substituted children.                           *)
C8_SubstituteOperators ==
  (res.op = "substitute_operators" /\ res.err = "") =>
    res.val = SubstituteOperatorsRef(f, res.map)

(* C9: parse_polish(f.polish()) is a formula with the string               *)
(* representation of f, and the parse consumes all of f.polish().          *)
C9_PolishRoundTrip ==
  res.op = "parse_polish(polish)" =>
    /\ res.val # None
    /\ repr(res.val) = repr(f)
    /\ parse_prefix_polish(polish(f)).r = <<>>

(* C9 witness: a binary formula over a multi-digit variable came back *)
C9_Witness ==
  /\ res.op = "parse_polish(polish)"
  /\ is_binary(f.root)
  /\ <<"x", "1", "2">> \in variables(f)
  /\ res.val = f

(* C10: parse_polish returns a formula only when the whole of s is a valid *)
(* Polish formula, and then one whose polish() is s; on every other s it   *)
(* fails instead of returning a formula for a prefix or None.              *)
C10_ParsePolishContract ==
  res.op = "parse_polish" =>
    IF InPolishGrammar(s)
    THEN res.err = "" /\ res.val # None /\ polish(res.val) = s
    ELSE res.err # ""

(* C11: on one instance the body of each memoized method (__repr__ behind *)
(* str, repr, == and hash; variables; operators) executes at most once,    *)
(* and every call returns a value equal to the first result.               *)
C11_ComputeOnce ==
  \A m \in Methods :
    /\ memo.runs[m] <= 1
    /\ Cardinality(memo.returned[m]) <= 1

(* C12: on every string, the empty one included, each of is_variable,     *)
(* is_constant, is_unary and is_binary returns true or false without       *)
(* raising, and at most one of the four returns true.                      *)
C12_TotalExclusive ==
  res.op \in Classifiers =>
    /\ res.err = ""
    /\ Cardinality({ name \in Classifiers : classify(name, s).b }) <= 1

====
